---- MODULE Spec2Model ----
(***************************************************************************)
(* A model of prompt_toolkit/interface.py: the CommandLineInterface        *)
(* session controller, its redraw scheduling, the asynchronous completer   *)
(* and auto-suggest actors, sub applications and the stdout proxy.         *)
(*                                                                         *)
(* Every method of the class is an operator that maps a "world" record     *)
(* (the fields of all objects, the event loop's queue and the log of the   *)
(* effects of the handler being executed) to the world after the call, so  *)
(* that a method that calls another one is the composition of the two.     *)
(* An action of the model is one handler executed on the control thread,   *)
(* or one step of a worker thread.                                         *)
(***************************************************************************)
EXTENDS Integers, Sequences, FiniteSets, TLC

VARIABLES
    created,          \* the CommandLineInterface objects constructed so far
    _is_running,      \* cli -> self._is_running
    _exit_flag,       \* cli -> self._exit_flag
    _abort_flag,      \* cli -> self._abort_flag
    _return_value,    \* cli -> self._return_value (None, True or a callable)
    render_counter,   \* cli -> self.render_counter
    _invalidated,     \* cli -> self._invalidated
    _sub_cli,         \* cli -> self._sub_cli (NoCli for None)
    eventloop,        \* cli -> the cli its _SubApplicationEventLoop proxies (NoCli: the real loop)
    application,      \* cli -> [on_exit, on_abort, done_callback] of its Application
    calls_from_executor, \* the real event loop's queue of scheduled callbacks
    loop_stopped,     \* stop() was called on the real event loop
    lastCall,         \* the handler executed last on the control thread
    effects,          \* what that handler did, in order
    document,         \* buffer.document of the root session's buffer: text and cursor position
    complete_state,   \* buffer.complete_state (NoState for None)
    suggestion,       \* buffer.suggestion (<<>> for None)
    complete_thread_running,  \* complete_thread_running[0]
    suggest_thread_running,   \* suggest_thread_running[0]
    executor,         \* the functions handed to run_in_executor, each on its worker
    buffer_config,    \* [completer, auto_suggest, complete_while_typing] of the buffer
    last_started,     \* task kind -> the snapshot of the task started last
    _buffer,          \* _StdoutProxy._buffer of the root session's proxy: the fragments held back
    output,           \* the characters written to cli.output
    flush_events,     \* the functions that handler handed to _StdoutProxy._do, in order
    raw_mode,         \* the terminal is inside "with self.input.raw_mode()"
    pc,               \* thread -> where it stands inside invalidate() of the root session
    nEdits,           \* the number of edits the user has made
    nWrites,          \* the number of calls made on the stdout proxy
    nCalls,           \* the number of calls the program has made on the sessions
    repaints_after_teardown  \* cli -> its paints since its child was torn down and
                             \* before its next own event (NotTracked outside that window)

lifecycleVars == <<created, _is_running, _exit_flag, _abort_flag, _return_value,
                   render_counter, _invalidated, _sub_cli, eventloop, application,
                   calls_from_executor, loop_stopped, lastCall, effects, raw_mode,
                   pc>>

bufferVars == <<document, complete_state, suggestion, complete_thread_running,
                suggest_thread_running, executor, buffer_config, last_started, nEdits>>

proxyVars == <<_buffer, output, flush_events, nWrites>>

vars == <<lifecycleVars, bufferVars, proxyVars, nCalls, repaints_after_teardown>>

----------------------------------------------------------------------------
(* Bounds of the model. *)

MaxSessions == 2
MaxCalls == 4
MaxEdits == 3
MaxLen == 2
MaxInFlight == 2
MaxWrites == 3
MaxData == 2
MaxThreads == 2

Sessions == 1..MaxSessions
Threads == 1..MaxThreads
Root == 1
NoCli == 0
NotTracked == 0 - 1

Values == {"v1"}

----------------------------------------------------------------------------
(* Values of self._return_value and results of calls. *)

None == [kind |-> "None", v |-> ""]
TrueMarker == [kind |-> "True", v |-> ""]
Lambda(v) == [kind |-> "lambda", v |-> v]
Raiser(e) == [kind |-> "raiser", v |-> e]

AbortAction == {"RAISE_EXCEPTION", "RETRY", "RETURN_NONE"}

Ev(e, s, arg) == [e |-> e, cli |-> s, arg |-> arg]
Call(op, s, arg, exc) == [op |-> op, cli |-> s, arg |-> arg, exc |-> exc]

World == [running |-> _is_running, exit_flag |-> _exit_flag, abort_flag |-> _abort_flag,
          rv |-> _return_value, rc |-> render_counter, inv |-> _invalidated,
          sub |-> _sub_cli, loop |-> eventloop, app |-> application,
          created |-> created, q |-> calls_from_executor, stopped |-> loop_stopped,
          doc |-> document, cstate |-> complete_state, sugg |-> suggestion,
          ctr |-> complete_thread_running, sgr |-> suggest_thread_running,
          exe |-> executor, started |-> last_started,
          since |-> repaints_after_teardown,
          pbuf |-> _buffer, out |-> output, fev |-> <<>>, raw |-> raw_mode,
          pc |-> pc,
          fx |-> <<>>, exc |-> ""]

Commit(w) ==
    /\ created' = w.created
    /\ _is_running' = w.running
    /\ _exit_flag' = w.exit_flag
    /\ _abort_flag' = w.abort_flag
    /\ _return_value' = w.rv
    /\ render_counter' = w.rc
    /\ _invalidated' = w.inv
    /\ _sub_cli' = w.sub
    /\ eventloop' = w.loop
    /\ application' = w.app
    /\ calls_from_executor' = w.q
    /\ loop_stopped' = w.stopped
    /\ effects' = w.fx
    /\ document' = w.doc
    /\ complete_state' = w.cstate
    /\ suggestion' = w.sugg
    /\ complete_thread_running' = w.ctr
    /\ suggest_thread_running' = w.sgr
    /\ executor' = w.exe
    /\ last_started' = w.started
    /\ repaints_after_teardown' = w.since
    /\ _buffer' = w.pbuf
    /\ output' = w.out
    /\ flush_events' = w.fev
    /\ raw_mode' = w.raw
    /\ pc' = w.pc

Emit(w, e, s, arg) == [w EXCEPT !.fx = Append(@, Ev(e, s, arg))]

----------------------------------------------------------------------------
(* Status properties. *)

is_exiting(w, s) == w.exit_flag[s]
is_aborting(w, s) == w.abort_flag[s]
is_returning(w, s) == w.rv[s] # None
is_done(w, s) == is_exiting(w, s) \/ is_aborting(w, s) \/ is_returning(w, s)

(* return_value(): the result of calling the installed callable; None when
   nothing is installed; calling the marker True is a TypeError. *)
return_value(w, s) ==
    CASE w.rv[s].kind = "None" -> [kind |-> "return", v |-> "None"]
      [] w.rv[s].kind = "lambda" -> [kind |-> "return", v |-> w.rv[s].v]
      [] w.rv[s].kind = "raiser" -> [kind |-> "raise", v |-> w.rv[s].v]
      [] w.rv[s].kind = "True" -> [kind |-> "raise", v |-> "TypeError"]

----------------------------------------------------------------------------
(* Rendering and invalidation. *)

(* _redraw() that paints whatever the state of the session. *)
_redraw_unguarded(w, s) ==
    Emit([w EXCEPT !.rc[s] = @ + 1,
                   !.since[s] = IF @ = NotTracked THEN @ ELSE @ + 1],
         "render", s, IF is_done(w, s) THEN "done" ELSE "not_done")

_redraw(w, s) ==
    IF w.running[s] /\ w.sub[s] = NoCli
    THEN Emit([w EXCEPT !.rc[s] = @ + 1,
                        !.since[s] = IF @ = NotTracked THEN @ ELSE @ + 1],
              "render", s, IF is_done(w, s) THEN "done" ELSE "not_done")
    ELSE w

(* EventLoop.call_from_executor, directly or through the proxy of a sub
   application, which forwards it to the real loop. *)
call_from_executor(w, cb) == [w EXCEPT !.q = Append(@, cb)]

(* Documents, completion options and the callbacks the queue holds. *)
EmptyDocument == [text |-> <<>>, cursor_position |-> 0]
NoOpts == [select_first |-> FALSE, select_last |-> FALSE, insert_common_part |-> FALSE]
Cb(type, s, snap, result, opts) ==
    [type |-> type, cli |-> s, snap |-> snap, result |-> result, opts |-> opts]

RedrawCb(s) == Cb("redraw", s, EmptyDocument, <<>>, NoOpts)

(* invalidate() without the test of the pending flag. *)
invalidate_unguarded(w, s) ==
    call_from_executor(Emit([w EXCEPT !.inv[s] = TRUE], "on_invalidate", s, ""),
                       RedrawCb(s))

(* invalidate() that fires on_invalidate before it tests the pending flag. *)
invalidate_firing_first(w, s) ==
    LET w1 == Emit(w, "on_invalidate", s, "")
    IN  IF w.inv[s] THEN w1
        ELSE call_from_executor([w1 EXCEPT !.inv[s] = TRUE], RedrawCb(s))

invalidate(w, s) ==
    IF w.inv[s]
    THEN w
    ELSE call_from_executor(Emit([w EXCEPT !.inv[s] = TRUE], "on_invalidate", s, ""),
                            RedrawCb(s))

(* invalidate() as the steps another thread may be preempted between: the
   test of the flag, its assignment, and the event with the scheduling. *)
invalidate_test(w, s) == w.inv[s]

invalidate_assign(w, s) == [w EXCEPT !.inv[s] = TRUE]

invalidate_schedule(w, s) ==
    call_from_executor(Emit(w, "on_invalidate", s, ""), RedrawCb(s))

(* The closure redraw() that invalidate() schedules. *)
redraw(w, s) == _redraw([w EXCEPT !.inv[s] = FALSE], s)

(* Buffer.reset() of the current buffer: the text, the cursor and what hangs on
   them start afresh. Only the root session's buffer is part of the state. *)
NoState == [set |-> FALSE, completions |-> <<>>, go_to_first |-> FALSE, go_to_last |-> FALSE]

buffer_reset(w, s) ==
    Emit(IF s = Root
         THEN [w EXCEPT !.doc = EmptyDocument, !.cstate = NoState, !.sugg = <<>>]
         ELSE w,
         "buffer.reset", s, "")

reset(w, s, reset_current_buffer) ==
    LET w1 == Emit([w EXCEPT !.exit_flag[s] = FALSE, !.abort_flag[s] = FALSE,
                             !.rv[s] = None],
                   "renderer.reset", s, "")
        w2 == IF reset_current_buffer THEN buffer_reset(w1, s) ELSE w1
    IN  Emit(w2, "on_reset", s, "")

_on_resize(w, s) ==
    _redraw(Emit(Emit(w, "renderer.erase", s, ""), "request_cpr", s, ""), s)

----------------------------------------------------------------------------
(* Sub applications and the ways a session ends. *)

(* done() delivering the result before it detaches the child. *)
done_delivers_first(w, p, c) ==
    LET w1 == Emit(_redraw(w, c), "renderer.reset", c, "")
        r  == return_value(w1, c)
        w2 == IF ~w1.app[c].done_callback THEN w1
              ELSE IF r.kind = "raise" THEN [w1 EXCEPT !.exc = r.v]
              ELSE Emit(w1, "done_callback", c, r.v)
        w3 == [w2 EXCEPT !.running[c] = FALSE, !.sub[p] = NoCli,
                         !.since[p] = IF w2.running[p] THEN 0 ELSE NotTracked]
    IN  IF w2.exc # "" THEN w2
        ELSE _redraw(Emit(Emit(w3, "clear_sub_cli", p, ""), "request_cpr", p, ""), p)

(* done() that leaves the repaint of the parent to a later invalidate(). *)
done_without_repaint(w, p, c) ==
    LET w1 == Emit(_redraw(w, c), "renderer.reset", c, "")
        w2 == [w1 EXCEPT !.running[c] = FALSE, !.sub[p] = NoCli,
                         !.since[p] = IF w1.running[p] THEN 0 ELSE NotTracked]
        w4 == Emit(Emit(w2, "clear_sub_cli", p, ""), "request_cpr", p, "")
        r  == return_value(w4, c)
    IN  IF ~w4.app[c].done_callback THEN w4
        ELSE IF r.kind = "raise" THEN [w4 EXCEPT !.exc = r.v]
        ELSE Emit(w4, "done_callback", c, r.v)

(* The closure done() of run_sub_application(p, ...) for the child c. A raise of
   the child's return_value() leaves done() before done_callback is called. *)
done(w, p, c) ==
    LET w1 == Emit(_redraw(w, c), "renderer.reset", c, "")
        w2 == [w1 EXCEPT !.running[c] = FALSE, !.sub[p] = NoCli,
                         !.since[p] = IF w1.running[p] THEN 0 ELSE NotTracked]
        w3 == Emit(w2, "clear_sub_cli", p, "")
        w4 == _redraw(Emit(w3, "request_cpr", p, ""), p)
        r  == return_value(w4, c)
    IN  IF ~w4.app[c].done_callback THEN w4
        ELSE IF r.kind = "raise" THEN [w4 EXCEPT !.exc = r.v]
        ELSE Emit(w4, "done_callback", c, r.v)

(* eventloop.stop(): the real loop is asked to stop; the proxy loop of a sub
   application calls its stop_callback, the closure done(). *)
stop(w, s) ==
    IF w.loop[s] = NoCli
    THEN Emit([w EXCEPT !.stopped = TRUE], "eventloop.stop", s, "")
    ELSE done(w, w.loop[s], s)

_set_return_callable(w, s, value) == stop([w EXCEPT !.rv[s] = value], s)

(* set_return_value() that leaves the done state unpainted. *)
set_return_value_without_redraw(w, s, v) == _set_return_callable(w, s, Lambda(v))

set_return_value(w, s, v) ==
    LET w1 == _set_return_callable(w, s, Lambda(v))
    IN  IF w1.exc # "" THEN w1 ELSE _redraw(w1, s)

(* The policies of exit() and abort() with a retry that goes on to return None. *)
apply_policy_fallthrough(w, s, policy, error) ==
    CASE policy = "RAISE_EXCEPTION" -> _set_return_callable(w, s, Raiser(error))
      [] policy = "RETRY" ->
            set_return_value(buffer_reset(Emit(reset(w, s, FALSE), "request_cpr", s, ""), s),
                             s, "None")
      [] policy = "RETURN_NONE" -> set_return_value(w, s, "None")

(* What exit() and abort() share: the policy of the application. *)
apply_policy(w, s, policy, error) ==
    CASE policy = "RAISE_EXCEPTION" -> _set_return_callable(w, s, Raiser(error))
      [] policy = "RETRY" ->
            buffer_reset(Emit(reset(w, s, FALSE), "request_cpr", s, ""), s)
      [] policy = "RETURN_NONE" -> set_return_value(w, s, "None")

exit(w, s) ==
    apply_policy(_redraw([w EXCEPT !.exit_flag[s] = TRUE], s), s,
                 w.app[s].on_exit, "EOFError")

abort(w, s) ==
    apply_policy(_redraw([w EXCEPT !.abort_flag[s] = TRUE], s), s,
                 w.app[s].on_abort, "KeyboardInterrupt")

(* run_in_terminal(func, render_cli_done) up to the call of func. *)
run_in_terminal_enter(w, s, render_cli_done) ==
    IF render_cli_done
    THEN Emit(_redraw([w EXCEPT !.rv[s] = TrueMarker], s), "renderer.reset", s, "")
    ELSE Emit(w, "renderer.erase", s, "")

(* run_in_terminal() behind the call of func. *)
run_in_terminal_leave(w, s) ==
    _redraw(Emit(Emit([w EXCEPT !.rv[s] = None], "renderer.reset", s, ""),
                 "request_cpr", s, ""), s)

(* run_in_terminal(func, render_cli_done) with a func of the caller, which
   returns or raises and touches nothing of the session. *)
run_in_terminal(w, s, render_cli_done, func_raises) ==
    LET w2 == Emit(run_in_terminal_enter(w, s, render_cli_done), "func", s, "")
    IN  IF func_raises THEN [w2 EXCEPT !.exc = "Exception"]
        ELSE run_in_terminal_leave(w2, s)

(* The constructor of a sub CommandLineInterface c on the proxy loop of p. *)
new_cli(w, c, p, app) ==
    reset([w EXCEPT !.created = @ \cup {c}, !.running[c] = FALSE, !.rc[c] = 0,
                    !.inv[c] = FALSE, !.sub[c] = NoCli, !.loop[c] = p, !.app[c] = app], c, FALSE)

(* run_sub_application() that erases the screen before it tests for a child. *)
run_sub_application_late_check(w, p, c, app) ==
    LET w0 == Emit(w, "renderer.erase", p, "")
    IN  IF w.sub[p] # NoCli
        THEN [w0 EXCEPT !.exc = "RuntimeError"]
        ELSE LET w1 == new_cli(w0, c, p, app)
                 w2 == _redraw([w1 EXCEPT !.running[c] = TRUE], c)
             IN  [w2 EXCEPT !.sub[p] = c]

run_sub_application(w, p, c, app) ==
    IF w.sub[p] # NoCli
    THEN [w EXCEPT !.exc = "RuntimeError"]
    ELSE LET w1 == new_cli(Emit(w, "renderer.erase", p, ""), c, p, app)
             w2 == _redraw([w1 EXCEPT !.running[c] = TRUE], c)
         IN  [w2 EXCEPT !.sub[p] = c]


(* run(): everything up to the call of eventloop.run(), which starts the loop. *)
run_enter(w, s, reset_current_buffer) ==
    LET w1 == Emit([w EXCEPT !.running[s] = TRUE], "on_start", s, "")
        w2 == reset(w1, s, reset_current_buffer)
        w3 == Emit(Emit([w2 EXCEPT !.raw = TRUE], "raw_mode", s, ""), "request_cpr", s, "")
    IN  [_redraw(w3, s) EXCEPT !.stopped = FALSE]

(* run() behind eventloop.run(): the with block of raw_mode() is left, then
   the finally block runs. *)
run_exit(w, s) ==
    LET w0 == IF w.raw THEN Emit([w EXCEPT !.raw = FALSE], "raw_mode.exit", s, "") ELSE w
        w1 == Emit(Emit(w0, "renderer.reset", s, ""), "on_stop", s, "")
    IN  [w1 EXCEPT !.running[s] = FALSE]

(* The steps of run() before the loop that may raise: the start hook, reset(),
   pre_run and the first paint. *)
RunSteps == {"on_start", "reset", "pre_run", "_redraw"}

(* run() up to the step that raises, the step itself having done nothing. *)
run_until(w, s, reset_current_buffer, at) ==
    LET w0 == [w EXCEPT !.running[s] = TRUE]
        w1 == IF at = "on_start" THEN w0 ELSE Emit(w0, "on_start", s, "")
        w2 == IF at \in {"on_start", "reset"} THEN w1 ELSE reset(w1, s, reset_current_buffer)
        w3 == IF at \in {"on_start", "reset", "pre_run"} THEN w2
              ELSE Emit(Emit([Emit(w2, "pre_run", s, "") EXCEPT !.raw = TRUE],
                             "raw_mode", s, ""), "request_cpr", s, "")
    IN  w3

(* run() with a try block whose cleanup is skipped when a step raises. *)
run_raising_without_finally(w, s, reset_current_buffer, at) ==
    [run_until(w, s, reset_current_buffer, at) EXCEPT !.exc = "Exception"]

(* run() with a step before the loop that raises: the finally block runs and
   the exception goes to the caller. *)
run_raising(w, s, reset_current_buffer, at) ==
    [run_exit(run_until(w, s, reset_current_buffer, at), s) EXCEPT !.exc = "Exception"]

(* run() when eventloop.run() raises. *)
run_loop_raising(w, s) == [run_exit(w, s) EXCEPT !.exc = "Exception"]

----------------------------------------------------------------------------
(* _InterfaceEventLoopCallbacks, the bridge from the event loop to the session
   s it was made for. *)

(* The bridge that hands every event to its own session. *)
_active_cli_self(w, s) == s

RECURSIVE _active_cli(_, _)
_active_cli(w, s) == IF w.sub[s] # NoCli THEN _active_cli(w, w.sub[s]) ELSE s

terminal_size_changed(w, s) == _on_resize(w, _active_cli(w, s))

input_timeout(w, s) == Emit(w, "on_input_timeout", _active_cli(w, s), "")

feed_key(w, s) == Emit(w, "input_processor.feed_key", _active_cli(w, s), "")

----------------------------------------------------------------------------
(* The buffer, as far as the asynchronous completer and auto suggestion read
   and write it. Buffer is not part of interface.py: these follow its contract
   (text and cursor position, insert_text with its on_text_insert event,
   set_completions, and a change of the text dropping the completion state and
   the suggestion, a move of the cursor dropping the completion state). *)

Kinds == {"complete", "suggest"}

Task(kind, snap, opts) ==
    [kind |-> kind, snap |-> snap, opts |-> opts, phase |-> "running", result |-> <<>>]

(* EventLoop.run_in_executor, directly or through the proxy loop. *)
run_in_executor(w, task) ==
    [w EXCEPT !.exe = Append(@, task), !.started[task.kind] = task.snap]

_text_changed(w) == [w EXCEPT !.cstate = NoState, !.sugg = <<>>]

_cursor_position_changed(w) == [w EXCEPT !.cstate = NoState]

(* async_completer() that starts a worker although one is running. *)
async_completer_unguarded(w, opts) ==
    IF w.cstate.set \/ ~buffer_config.completer THEN w
    ELSE run_in_executor([w EXCEPT !.ctr = TRUE], Task("complete", w.doc, opts))

(* The closure async_completer of _create_async_completer, up to the start
   of the worker. *)
async_completer(w, opts) ==
    IF w.ctr THEN w
    ELSE IF w.cstate.set \/ ~buffer_config.completer THEN w
    ELSE run_in_executor([w EXCEPT !.ctr = TRUE], Task("complete", w.doc, opts))

(* The closure async_suggestor of _create_auto_suggest_function. *)
async_suggestor(w) ==
    IF w.sgr THEN w
    ELSE IF w.sugg # <<>> \/ ~buffer_config.auto_suggest THEN w
    ELSE run_in_executor([w EXCEPT !.sgr = TRUE], Task("suggest", w.doc, NoOpts))

(* The handler add_buffer() installs on buffer.on_text_insert. *)
on_text_insert(w) ==
    LET w1 == IF buffer_config.completer /\ buffer_config.complete_while_typing
              THEN async_completer(w, NoOpts) ELSE w
        w2 == IF buffer_config.auto_suggest THEN async_suggestor(w1) ELSE w1
    IN  Emit(w2, "on_buffer_changed", Root, "")

(* Buffer.insert_text(data): data goes in at the cursor, the cursor moves
   behind it, and on_text_insert fires. *)
insert_text(w, data) ==
    LET cp == w.doc.cursor_position
        text == SubSeq(w.doc.text, 1, cp) \o data
                   \o SubSeq(w.doc.text, cp + 1, Len(w.doc.text))
        w1 == [w EXCEPT !.doc = [text |-> text, cursor_position |-> cp + Len(data)]]
    IN  on_text_insert(_text_changed(w1))

(* Buffer.delete_before_cursor(): no on_text_insert event. *)
delete_before_cursor(w) ==
    LET cp == w.doc.cursor_position
        text == SubSeq(w.doc.text, 1, cp - 1) \o SubSeq(w.doc.text, cp + 1, Len(w.doc.text))
    IN  _text_changed([w EXCEPT !.doc = [text |-> text, cursor_position |-> cp - 1]])

cursor_left(w) ==
    _cursor_position_changed([w EXCEPT !.doc.cursor_position = @ - 1])

(* Buffer.set_completions(); the log tells whether the buffer still was the
   document the completions were computed for. *)
Freshness(w, snap) == IF w.doc = snap THEN "fresh" ELSE "stale"

set_completions(w, snap, completions, go_to_first, go_to_last) ==
    Emit([w EXCEPT !.cstate = [set |-> TRUE, completions |-> completions,
                               go_to_first |-> go_to_first, go_to_last |-> go_to_last]],
         "set_completions", Root, Freshness(w, snap))

RECURSIVE CommonPrefix(_, _)
CommonPrefix(a, b) ==
    IF a = <<>> \/ b = <<>> \/ Head(a) # Head(b) THEN <<>>
    ELSE <<Head(a)>> \o CommonPrefix(Tail(a), Tail(b))

RECURSIVE CommonPrefixOf(_)
CommonPrefixOf(texts) ==
    IF Len(texts) = 0 THEN <<>>
    ELSE IF Len(texts) = 1 THEN texts[1]
    ELSE CommonPrefix(texts[1], CommonPrefixOf(Tail(texts)))

(* completion.get_common_complete_suffix(document, completions): the common
   prefix of what the completions add behind the cursor. *)
get_common_complete_suffix(doc, completions) == CommonPrefixOf(completions)

(* callback() of the completer that commits without the staleness test. *)
complete_callback_unchecked(w, cb) ==
    invalidate(set_completions(w, cb.snap, cb.result, cb.opts.select_first,
                               cb.opts.select_last), Root)

(* callback() of the completer that drops a stale result and does not restart. *)
complete_callback_no_restart(w, cb) ==
    IF w.doc = cb.snap /\ ~w.cstate.set
    THEN invalidate(set_completions(w, cb.snap, cb.result, cb.opts.select_first,
                                    cb.opts.select_last), Root)
    ELSE w

(* callback() of the completer that presents the list whatever was asked
   about the common part. *)
complete_callback_ignoring_common_part(w, cb) ==
    IF /\ w.doc.text = cb.snap.text
       /\ w.doc.cursor_position = cb.snap.cursor_position
       /\ ~w.cstate.set
    THEN invalidate(set_completions(w, cb.snap, cb.result, cb.opts.select_first,
                                    cb.opts.select_last), Root)
    ELSE async_completer(w, NoOpts)

(* The closure callback() of the completer's run(), executed by the loop. *)
complete_callback(w, cb) ==
    IF /\ w.doc.text = cb.snap.text
       /\ w.doc.cursor_position = cb.snap.cursor_position
       /\ ~w.cstate.set
    THEN LET common_part == get_common_complete_suffix(cb.snap, cb.result)
             select_first_anyway ==
                 cb.opts.insert_common_part /\ common_part = <<>> /\ Len(cb.result) = 1
         IN  IF cb.opts.insert_common_part /\ common_part # <<>>
             THEN invalidate(async_completer(insert_text(w, common_part), NoOpts), Root)
             ELSE invalidate(set_completions(w, cb.snap, cb.result,
                                             cb.opts.select_first \/ select_first_anyway,
                                             cb.opts.select_last), Root)
    ELSE async_completer(w, NoOpts)

(* The closure callback() of the suggestor's run(). *)
suggest_callback(w, cb) ==
    IF /\ w.doc.text = cb.snap.text
       /\ w.doc.cursor_position = cb.snap.cursor_position
    THEN invalidate(Emit([w EXCEPT !.sugg = cb.result], "set_suggestion", Root,
                         Freshness(w, cb.snap)), Root)
    ELSE async_suggestor(w)

(* What the completer and the auto suggestion may answer for a document. *)
A == <<"a">>
CompletionLists == { <<A>>, <<A, <<"b">> >> }
Suggestions == { <<>>, <<A>> }

Results(task) ==
    IF task.kind = "complete"
    THEN {r \in CompletionLists :
            IF task.opts.insert_common_part
            THEN Len(task.snap.text) + Len(get_common_complete_suffix(task.snap, r))
                     <= MaxLen
            ELSE r = <<A>>}
    ELSE Suggestions

(* start_completion() is called with its default arguments. *)
OptSets == {NoOpts}

----------------------------------------------------------------------------
(* _StdoutProxy, the proxy for stdout of the root session. Text is a sequence
   of characters; the proxy's buffer is a sequence of texts. *)

NL == "\n"
Chars == {"a", NL}
Data == UNION {[1..n -> Chars] : n \in 0..MaxData}

RECURSIVE Concat(_)
Concat(fragments) ==
    IF fragments = <<>> THEN <<>> ELSE Head(fragments) \o Concat(Tail(fragments))

HasBreak(data) == \E i \in 1..Len(data) : data[i] = NL

Breaks(data) == Cardinality({i \in 1..Len(data) : data[i] = NL})

FirstBreak(data) ==
    CHOOSE i \in 1..Len(data) : data[i] = NL /\ \A j \in 1..(i - 1) : data[j] # NL

LastBreak(data) ==
    CHOOSE i \in 1..Len(data) : data[i] = NL /\ \A j \in (i + 1)..Len(data) : data[j] # NL

(* The two functions run() the proxy hands to _do: the one of _write writes
   the fragments it was made with, the one of _flush writes the buffer as it
   is when it runs, empties it and flushes the output. *)
Func(type, to_write) == [type |-> type, to_write |-> to_write]

run(w, func) ==
    IF func.type = "write"
    THEN [w EXCEPT !.out = @ \o Concat(func.to_write)]
    ELSE Emit([w EXCEPT !.out = @ \o Concat(w.pbuf), !.pbuf = <<>>],
              "output.flush", Root, "")

(* _do(func): through run_in_terminal on the loop while the session runs,
   at once otherwise. *)
_do(w, func) ==
    LET w1 == [w EXCEPT !.fev = Append(@, func)]
    IN  IF w1.running[Root]
        THEN call_from_executor(w1, Cb(func.type, Root, EmptyDocument, func.to_write, NoOpts))
        ELSE run(w1, func)

(* _write that cuts at the first line break. *)
_write_first_break(w, data) ==
    IF HasBreak(data)
    THEN LET i == FirstBreak(data)
             before == SubSeq(data, 1, i - 1)
             after == SubSeq(data, i + 1, Len(data))
         IN  _do([w EXCEPT !.pbuf = <<after>>],
                 Func("write", w.pbuf \o <<before, <<NL>> >>))
    ELSE [w EXCEPT !.pbuf = Append(@, data)]

(* _write that hands every line to _do on its own. *)
RECURSIVE _write_per_line(_, _)
_write_per_line(w, data) ==
    IF HasBreak(data)
    THEN LET i == FirstBreak(data)
             before == SubSeq(data, 1, i - 1)
             after == SubSeq(data, i + 1, Len(data))
             w1 == _do([w EXCEPT !.pbuf = <<>>],
                       Func("write", w.pbuf \o <<before, <<NL>> >>))
         IN  IF HasBreak(after) THEN _write_per_line(w1, after)
                                ELSE [w1 EXCEPT !.pbuf = <<after>>]
    ELSE [w EXCEPT !.pbuf = Append(@, data)]

(* _StdoutProxy._write(data): data.rsplit('\n', 1) cuts at the last break. *)
_write(w, data) ==
    IF HasBreak(data)
    THEN LET i == LastBreak(data)
             before == SubSeq(data, 1, i - 1)
             after == SubSeq(data, i + 1, Len(data))
             to_write == w.pbuf \o <<before, <<NL>> >>
         IN  _do([w EXCEPT !.pbuf = <<after>>], Func("write", to_write))
    ELSE [w EXCEPT !.pbuf = Append(@, data)]

(* write(data) and flush() hold the proxy's lock around _write and _flush. *)
write(w, data) == _write(w, data)

_flush(w) == _do(w, Func("flush", <<>>))

flush(w) == _flush(w)

----------------------------------------------------------------------------
(* The actions of the session controller. *)

FreeSessions == Sessions \ created
(* The identity of the next object constructed; none is left at the bound. *)
NewSession == IF FreeSessions = {} THEN {NoCli}
              ELSE {c \in FreeSessions : \A d \in FreeSessions : c <= d}

(* The applications the model runs: one policy for both exit and abort. *)
Applications == {a \in [on_exit : AbortAction, on_abort : AbortAction,
                        done_callback : BOOLEAN] : a.on_exit = a.on_abort}
RootApplications == {a \in Applications : ~a.done_callback}

(* The event loop drives the callbacks while run() is inside eventloop.run(). *)
LoopRunning == _is_running[Root]

(* The program may call for ever; the model stops after MaxCalls calls. *)
Budget == nCalls < MaxCalls

Done(w, call) == Commit(w) /\ lastCall' = call

Handled(w, op, s, arg) == Done(w, Call(op, s, arg, w.exc))

(* The world at the start of a handler that calls a method of the session s. *)
Event(s) == [World EXCEPT !.since[s] = NotTracked]

(* A call of the program on a session, as opposed to a step of the loop. *)
Called(w, op, s, arg) ==
    /\ Budget
    /\ Handled(w, op, s, arg)
    /\ nCalls' = nCalls + 1
    /\ UNCHANGED <<buffer_config, nEdits, nWrites>>

RunEnter ==
    /\ ~_is_running[Root]
    /\ Called(run_enter(Event(Root), Root, TRUE), "run_enter", Root, "")

RunExit ==
    /\ _is_running[Root] /\ loop_stopped
    /\ LET w == run_exit(World, Root)
           r == return_value(w, Root)
       IN  Done(w, Call("run", Root, r.v, IF r.kind = "raise" THEN r.v ELSE ""))
    /\ UNCHANGED <<buffer_config, nEdits, nCalls, nWrites>>

RunRaises ==
    /\ ~_is_running[Root]
    /\ \E at \in RunSteps :
          Called(run_raising(Event(Root), Root, TRUE, at), "run", Root, at)

LoopRaises ==
    /\ _is_running[Root] /\ ~loop_stopped
    /\ Handled(run_loop_raising(World, Root), "run", Root, "eventloop.run")
    /\ UNCHANGED <<buffer_config, nEdits, nCalls, nWrites>>

Invalidate(s) ==
    /\ s \in created
    /\ Called(invalidate(Event(s), s), "invalidate", s, "")

(* The loop runs a scheduled callback; redraw callbacks have low priority and
   may be postponed behind later ones. *)
Runnable(i) ==
    /\ i \in 1..Len(calls_from_executor)
    /\ \A j \in 1..(i - 1) : calls_from_executor[j].type = "redraw"

Remove(q, i) == SubSeq(q, 1, i - 1) \o SubSeq(q, i + 1, Len(q))

LoopRedraw ==
    /\ LoopRunning
    /\ \E i \in 1..Len(calls_from_executor) :
          /\ Runnable(i)
          /\ calls_from_executor[i].type = "redraw"
          /\ LET cb == calls_from_executor[i]
                 w == [World EXCEPT !.q = Remove(@, i)]
             IN  Handled(redraw(w, cb.cli), "redraw", cb.cli, "")
    /\ UNCHANGED <<buffer_config, nEdits, nCalls, nWrites>>

RunSubApplication(p) ==
    /\ p \in created
    /\ \E app \in Applications, c \in NewSession :
          /\ c # NoCli \/ _sub_cli[p] # NoCli
          /\ Called(run_sub_application(Event(p), p, c, app),
                    "run_sub_application", p, "")

SetReturnValue(s) ==
    /\ s \in created
    /\ \E v \in Values : Called(set_return_value(Event(s), s, v), "set_return_value", s, v)

Exit(s) ==
    /\ s \in created
    /\ Called(exit(Event(s), s), "exit", s, "")

Abort(s) ==
    /\ s \in created
    /\ Called(abort(Event(s), s), "abort", s, "")

Reset(s) ==
    /\ s \in created
    /\ Called(reset(Event(s), s, FALSE), "reset", s, "")

RunInTerminal(s) ==
    /\ s \in created
    /\ \E render_cli_done \in BOOLEAN, func_raises \in BOOLEAN :
          Called(run_in_terminal(Event(s), s, render_cli_done, func_raises),
                 "run_in_terminal", s, IF render_cli_done THEN "done" ELSE "erase")

----------------------------------------------------------------------------
(* The state after the construction of the root CommandLineInterface. *)

BufferConfigs == [completer : BOOLEAN, auto_suggest : BOOLEAN,
                  complete_while_typing : BOOLEAN]

DefaultBufferConfig ==
    [completer |-> TRUE, auto_suggest |-> TRUE, complete_while_typing |-> TRUE]

DefaultApplication ==
    [on_exit |-> "RAISE_EXCEPTION", on_abort |-> "RAISE_EXCEPTION", done_callback |-> FALSE]

InitWith(applications, buffer_configs) ==
    /\ created = {Root}
    /\ _is_running = [s \in Sessions |-> FALSE]
    /\ _exit_flag = [s \in Sessions |-> FALSE]
    /\ _abort_flag = [s \in Sessions |-> FALSE]
    /\ _return_value = [s \in Sessions |-> None]
    /\ render_counter = [s \in Sessions |-> 0]
    /\ _invalidated = [s \in Sessions |-> FALSE]
    /\ _sub_cli = [s \in Sessions |-> NoCli]
    /\ eventloop = [s \in Sessions |-> NoCli]
    /\ \E a \in applications :
          application = [s \in Sessions |-> IF s = Root THEN a ELSE DefaultApplication]
    /\ calls_from_executor = <<>>
    /\ loop_stopped = FALSE
    /\ lastCall = Call("__init__", Root, "", "")
    /\ effects = <<>>
    /\ document = EmptyDocument
    /\ complete_state = NoState
    /\ suggestion = <<>>
    /\ complete_thread_running = FALSE
    /\ suggest_thread_running = FALSE
    /\ executor = <<>>
    /\ buffer_config \in buffer_configs
    /\ last_started = [k \in {"complete", "suggest"} |-> EmptyDocument]
    /\ _buffer = <<>>
    /\ output = <<>>
    /\ flush_events = <<>>
    /\ raw_mode = FALSE
    /\ pc = [t \in Threads |-> "idle"]
    /\ nEdits = 0
    /\ nCalls = 0
    /\ nWrites = 0
    /\ repaints_after_teardown = [s \in Sessions |-> NotTracked]

Init == InitWith(RootApplications, {DefaultBufferConfig})

(* The session controller: run, invalidate, exit/abort/return, run_in_terminal
   and sub applications. *)
Next ==
    \/ RunEnter
    \/ RunExit
    \/ RunRaises
    \/ LoopRaises
    \/ LoopRedraw
    \/ \E s \in Sessions : Invalidate(s)
    \/ \E s \in Sessions : RunSubApplication(s)
    \/ \E s \in Sessions : SetReturnValue(s)
    \/ \E s \in Sessions : Exit(s)
    \/ \E s \in Sessions : Abort(s)
    \/ \E s \in Sessions : Reset(s)
    \/ \E s \in Sessions : RunInTerminal(s)

Spec == Init /\ [][Next]_vars

----------------------------------------------------------------------------
(* The actions of the asynchronous completer and auto suggestion: what the
   user does to the buffer, the steps of the workers, and the callbacks the
   loop runs. *)

InFlight == Len(executor) + Cardinality({i \in 1..Len(calls_from_executor) :
                                            calls_from_executor[i].type # "redraw"})

(* A key binding that edits the buffer: the loop feeds keys to the session
   only while it runs. It does not count as a call on the session. *)
Edited(w, op, arg) ==
    /\ LoopRunning
    /\ nEdits < MaxEdits
    /\ Handled(w, op, Root, arg)
    /\ nEdits' = nEdits + 1
    /\ UNCHANGED <<buffer_config, nCalls, nWrites>>

start_completion(w, opts) == async_completer(w, opts)

StartCompletion ==
    /\ LoopRunning
    /\ InFlight < MaxInFlight
    /\ \E opts \in OptSets :
          Handled(start_completion(World, opts), "start_completion", Root,
                  IF complete_thread_running THEN "in_flight" ELSE "idle")
    /\ UNCHANGED <<buffer_config, nCalls, nEdits, nWrites>>

TypeText ==
    /\ Len(document.text) < MaxLen
    /\ Edited(insert_text(World, A), "insert_text", "")

DeleteBeforeCursor ==
    /\ document.cursor_position > 0
    /\ Edited(delete_before_cursor(World), "delete_before_cursor", "")

CursorLeft ==
    /\ document.cursor_position > 0
    /\ Edited(cursor_left(World), "cursor_left", "")

(* A worker thread runs run() from the moment run_in_executor is called: it
   computes the result and clears the guard, then schedules the callback. It does not touch lastCall and effects,
   which belong to the control thread. *)
WorkerVars == <<created, _is_running, _exit_flag, _abort_flag, _return_value,
                render_counter, _invalidated, _sub_cli, eventloop, application,
                loop_stopped, lastCall, effects, document, complete_state, suggestion,
                buffer_config, last_started, nEdits, nCalls, repaints_after_teardown,
                proxyVars, raw_mode, pc>>

WorkerFinish ==
    \E i \in 1..Len(executor) :
        /\ executor[i].phase = "running"
        /\ \E r \in Results(executor[i]) :
              executor' = [executor EXCEPT ![i].phase = "finished", ![i].result = r]
        /\ complete_thread_running' =
              IF executor[i].kind = "complete" THEN FALSE ELSE complete_thread_running
        /\ suggest_thread_running' =
              IF executor[i].kind = "suggest" THEN FALSE ELSE suggest_thread_running
        /\ UNCHANGED <<WorkerVars, calls_from_executor>>

WorkerSchedule ==
    \E i \in 1..Len(executor) :
        /\ executor[i].phase = "finished"
        /\ calls_from_executor' =
              Append(calls_from_executor,
                     Cb(executor[i].kind, Root, executor[i].snap, executor[i].result,
                        executor[i].opts))
        /\ executor' = Remove(executor, i)
        /\ UNCHANGED <<WorkerVars, complete_thread_running, suggest_thread_running>>

LoopCallback(kind) ==
    /\ \E i \in 1..Len(calls_from_executor) :
          /\ Runnable(i)
          /\ calls_from_executor[i].type = kind
          /\ LET cb == calls_from_executor[i]
                 w == [World EXCEPT !.q = Remove(@, i)]
             IN  Handled(IF kind = "complete" THEN complete_callback(w, cb)
                                              ELSE suggest_callback(w, cb),
                         IF kind = "complete" THEN "complete_callback"
                                              ELSE "suggest_callback",
                         Root, Freshness(w, cb.snap))
    /\ UNCHANGED <<buffer_config, nEdits, nCalls, nWrites>>

LoopCompleteCallback ==
    /\ LoopRunning
    /\ LoopCallback("complete")

LoopSuggestCallback ==
    /\ LoopRunning
    /\ LoopCallback("suggest")

(* Buffers with a completer (completing while typing or not) or with an auto
   suggestion: the two actors of a buffer share nothing but the document. *)
ActorConfigs == {c \in BufferConfigs :
                   /\ c.completer # c.auto_suggest
                   /\ c.complete_while_typing => c.completer}

InitAsync == InitWith({DefaultApplication}, ActorConfigs)

NextAsync ==
    \/ RunEnter
    \/ StartCompletion
    \/ TypeText
    \/ DeleteBeforeCursor
    \/ CursorLeft
    \/ WorkerFinish
    \/ WorkerSchedule
    \/ LoopCompleteCallback
    \/ LoopSuggestCallback
    \/ LoopRedraw

SpecAsync == InitAsync /\ [][NextAsync]_vars

(* The same with the scheduling the claims about progress assume: run() is
   called, every worker runs to its end, and the loop runs what is scheduled. *)
SpecAsyncFair ==
    /\ SpecAsync
    /\ WF_vars(RunEnter)
    /\ WF_vars(WorkerFinish)
    /\ WF_vars(WorkerSchedule)
    /\ WF_vars(LoopCompleteCallback)
    /\ WF_vars(LoopSuggestCallback)
    /\ WF_vars(LoopRedraw)

----------------------------------------------------------------------------
(* Task functions that raise: get_completions() or get_suggestion() raises on
   the worker, which leaves run() at its first statement; the worker ends
   there, with the guard as it was and nothing scheduled. *)

WorkerRaises ==
    \E i \in 1..Len(executor) :
        /\ executor[i].phase = "running"
        /\ executor' = [executor EXCEPT ![i].phase = "raised"]
        /\ UNCHANGED <<WorkerVars, calls_from_executor, complete_thread_running,
                       suggest_thread_running>>

NextFailing ==
    \/ RunEnter
    \/ StartCompletion
    \/ TypeText
    \/ DeleteBeforeCursor
    \/ CursorLeft
    \/ WorkerFinish
    \/ WorkerRaises
    \/ WorkerSchedule
    \/ LoopCompleteCallback
    \/ LoopSuggestCallback
    \/ LoopRedraw

SpecFailing == InitAsync /\ [][NextFailing]_vars

----------------------------------------------------------------------------
(* Completion that inserts the common part: start_completion() is called with
   insert_common_part=True as well, on a buffer with a completer. *)

InsertCommonPart == [NoOpts EXCEPT !.insert_common_part = TRUE]

StartCompletionInsertingCommonPart ==
    /\ LoopRunning
    /\ InFlight < MaxInFlight
    /\ Handled(start_completion(World, InsertCommonPart), "start_completion", Root,
               IF complete_thread_running THEN "in_flight" ELSE "idle")
    /\ UNCHANGED <<buffer_config, nCalls, nEdits, nWrites>>

CompleterConfigs == {c \in BufferConfigs : c.completer /\ ~c.auto_suggest}

InitCommon == InitWith({DefaultApplication}, CompleterConfigs)

NextCommon ==
    \/ RunEnter
    \/ StartCompletion
    \/ StartCompletionInsertingCommonPart
    \/ TypeText
    \/ CursorLeft
    \/ WorkerFinish
    \/ WorkerSchedule
    \/ LoopCompleteCallback
    \/ LoopRedraw

SpecCommon == InitCommon /\ [][NextCommon]_vars

----------------------------------------------------------------------------
(* The actions of the stdout proxy: the program writes and flushes, the loop
   runs the run_in_terminal calls the proxy has scheduled. *)

ProxyCall(w, op) ==
    /\ Handled(w, op, Root, "")
    /\ nWrites' = nWrites + 1
    /\ UNCHANGED <<buffer_config, nEdits, nCalls>>

Write(data) ==
    /\ nWrites < MaxWrites
    /\ ProxyCall(write(World, data), "write")

Flush ==
    /\ nWrites < MaxWrites
    /\ ProxyCall(flush(World), "flush")

LoopRunInTerminal ==
    /\ LoopRunning
    /\ \E i \in 1..Len(calls_from_executor) :
          /\ Runnable(i)
          /\ calls_from_executor[i].type \in {"write", "flush"}
          /\ LET cb == calls_from_executor[i]
                 w == [World EXCEPT !.q = Remove(@, i)]
                 w1 == Emit(run_in_terminal_enter(w, cb.cli, FALSE), "func", cb.cli, "")
             IN  Handled(run_in_terminal_leave(run(w1, Func(cb.type, cb.result)), cb.cli),
                         "run_in_terminal", cb.cli, "erase")
    /\ UNCHANGED <<buffer_config, nEdits, nCalls, nWrites>>

InitProxy == InitWith({DefaultApplication}, {DefaultBufferConfig})

NextProxy ==
    \/ RunEnter
    \/ \E data \in Data : Write(data)
    \/ Flush
    \/ LoopRunInTerminal

SpecProxy == InitProxy /\ [][NextProxy]_vars

----------------------------------------------------------------------------
(* Properties of the stdout proxy. *)

C8_Step ==
    \A data \in Data :
        Write(data) =>
            IF HasBreak(data)
            THEN LET i == LastBreak(data)
                 IN  /\ Len(flush_events') = 1
                     /\ flush_events'[1].type = "write"
                     /\ Concat(flush_events'[1].to_write)
                            = Concat(_buffer) \o SubSeq(data, 1, i)
                     /\ Concat(_buffer') = SubSeq(data, i + 1, Len(data))
                     /\ IF _is_running[Root]
                        THEN /\ output' = output
                             /\ Len(calls_from_executor') = Len(calls_from_executor) + 1
                        ELSE /\ output' = output \o Concat(flush_events'[1].to_write)
                             /\ calls_from_executor' = calls_from_executor
            ELSE /\ flush_events' = <<>>
                 /\ _buffer' = Append(_buffer, data)
                 /\ UNCHANGED <<output, calls_from_executor>>

(* C8: a write() without a line break hands nothing to the terminal and
   appends its data to the buffer; a write() with a line break hands over
   exactly one function, which writes the buffered fragments followed by the
   data up to and including its last line break, and leaves what follows
   that break in the buffer. *)
C8_Batching == [][C8_Step]_vars

(* C8's case: fragments were held back, and the write() of a line break sent
   them out together. *)
C8_Witness ==
    /\ lastCall.op = "write"
    /\ Len(flush_events) = 1
    /\ Concat(flush_events[1].to_write) = <<"a", "a", NL>>
    /\ Len(flush_events[1].to_write) > 2
    /\ _buffer = << <<>> >>

(* C9 as claimed: a write() hands over one function for each line break of
   its data. *)
C9_Step == \A data \in Data : Write(data) => Len(flush_events') = Breaks(data)

C9_OneFlushPerLine == [][C9_Step]_vars

C9_AmendedStep ==
    \A data \in Data :
        Write(data) =>
            /\ Len(flush_events') = IF HasBreak(data) THEN 1 ELSE 0
            /\ \A i \in 1..Len(flush_events') :
                  Breaks(Concat(flush_events'[i].to_write))
                      = Breaks(Concat(_buffer)) + Breaks(data)
            /\ HasBreak(data) => ~HasBreak(Concat(_buffer'))

(* C9, amended: a write() whose data holds line breaks hands over exactly
   one function, however many lines the data holds; it carries every
   complete line, and the unterminated rest stays in the buffer. *)
C9_OneFlushPerWrite == [][C9_AmendedStep]_vars

(* C9's case: one write() of two lines. *)
C9_Witness ==
    /\ lastCall.op = "write" /\ nWrites = 1
    /\ Len(flush_events) = 1
    /\ Breaks(Concat(flush_events[1].to_write)) = 2

----------------------------------------------------------------------------
(* invalidate() called by several threads on the root session. A thread may
   be preempted between any two statements. *)

At(w, t, position) == [w EXCEPT !.pc[t] = position]

ThreadTest(t) ==
    /\ pc[t] = "idle"
    /\ Called(IF invalidate_test(World, Root) THEN World ELSE At(World, t, "tested"),
              "invalidate", Root, IF invalidate_test(World, Root) THEN "pending" ELSE "")

ThreadAssign(t) ==
    /\ pc[t] = "tested"
    /\ Handled(At(invalidate_assign(World, Root), t, "assigned"), "invalidate", Root, "")
    /\ UNCHANGED <<buffer_config, nEdits, nCalls, nWrites>>

ThreadSchedule(t) ==
    /\ pc[t] = "assigned"
    /\ Handled(At(invalidate_schedule(World, Root), t, "idle"), "invalidate", Root, "")
    /\ UNCHANGED <<buffer_config, nEdits, nCalls, nWrites>>

InitThreads == InitWith({DefaultApplication}, {DefaultBufferConfig})

NextThreads ==
    \/ RunEnter
    \/ LoopRedraw
    \/ \E t \in Threads : ThreadTest(t)
    \/ \E t \in Threads : ThreadAssign(t)
    \/ \E t \in Threads : ThreadSchedule(t)

SpecThreads == InitThreads /\ [][NextThreads]_vars

----------------------------------------------------------------------------
(* The events the loop delivers through the bridge of the root session, with
   sub applications started and ended in between. *)

TerminalSizeChanged ==
    /\ LoopRunning
    /\ Called(terminal_size_changed(World, Root), "terminal_size_changed", Root, "")

InputTimeout ==
    /\ LoopRunning
    /\ Called(input_timeout(World, Root), "input_timeout", Root, "")

FeedKey ==
    /\ LoopRunning
    /\ Called(feed_key(World, Root), "feed_key", Root, "")

InitInput == InitWith({DefaultApplication}, {DefaultBufferConfig})

NextInput ==
    \/ RunEnter
    \/ TerminalSizeChanged
    \/ InputTimeout
    \/ FeedKey
    \/ LoopRedraw
    \/ \E s \in Sessions : Invalidate(s)
    \/ \E s \in Sessions : RunSubApplication(s)
    \/ \E s \in Sessions : SetReturnValue(s)

SpecInput == InitInput /\ [][NextInput]_vars

----------------------------------------------------------------------------
(* The session controller together with the resizes of the terminal: every
   handler that ends in _redraw(). *)

NextRender ==
    \/ RunEnter
    \/ RunExit
    \/ RunRaises
    \/ LoopRaises
    \/ LoopRedraw
    \/ TerminalSizeChanged
    \/ \E s \in Sessions : Invalidate(s)
    \/ \E s \in Sessions : RunSubApplication(s)
    \/ \E s \in Sessions : SetReturnValue(s)
    \/ \E s \in Sessions : Exit(s)
    \/ \E s \in Sessions : Abort(s)
    \/ \E s \in Sessions : Reset(s)
    \/ \E s \in Sessions : RunInTerminal(s)

SpecRender == Init /\ [][NextRender]_vars

----------------------------------------------------------------------------
(* Properties of the session controller. *)

HasEffect(fx, e, s) == \E i \in 1..Len(fx) : fx[i].e = e /\ fx[i].cli = s

PendingRedraws(s) ==
    Cardinality({i \in 1..Len(calls_from_executor) :
                    calls_from_executor[i] = RedrawCb(s)})

(* C1: redraw coalescing. At every reachable state a session has exactly one
   redraw callback in the event loop's queue when _invalidated is set and none
   when it is clear; the flag is set only by invalidate() and cleared only by
   the scheduled callback, which then calls _redraw(). *)
C1_Pending == \A s \in Sessions : PendingRedraws(s) = IF _invalidated[s] THEN 1 ELSE 0

C1_FlagStep ==
    \A s \in Sessions :
        /\ (~_invalidated[s] /\ _invalidated'[s]) =>
               (lastCall'.op = "invalidate" /\ lastCall'.cli = s)
        /\ (_invalidated[s] /\ ~_invalidated'[s]) =>
               (lastCall'.op = "redraw" /\ lastCall'.cli = s)

C1_RedrawCoalescing == []C1_Pending /\ [][C1_FlagStep]_vars

(* C1's case: invalidate() called on a session whose repaint is pending already. *)
C1_Witness ==
    /\ lastCall.op = "invalidate" /\ effects = <<>>
    /\ _invalidated[lastCall.cli] /\ PendingRedraws(lastCall.cli) = 1

----------------------------------------------------------------------------
(* Properties of the asynchronous completer and auto suggestion. *)

Running(k) == {i \in 1..Len(executor) :
                  executor[i].kind = k /\ executor[i].phase = "running"}

Submitted(k) == Cardinality({i \in 1..Len(executor) : executor[i].kind = k})

Guard(k) == IF k = "complete" THEN complete_thread_running ELSE suggest_thread_running

C2_AtMostOne == \A k \in Kinds : Cardinality(Running(k)) <= 1

C2_Step ==
    /\ \A k \in Kinds : Guard(k) => Submitted(k)' <= Submitted(k)
    /\ (StartCompletion /\ complete_thread_running) =>
           UNCHANGED <<created, _is_running, _exit_flag, _abort_flag, _return_value,
                       render_counter, _invalidated, _sub_cli, eventloop, application,
                       calls_from_executor, loop_stopped, bufferVars, nCalls,
                       repaints_after_teardown>>

(* C2: single-flight. For each kind of task at most one worker executes the
   task function at any time; no step taken while a lookup is in flight
   submits another one to the executor, and start_completion called while
   the completer's lookup is in flight changes nothing at all. *)
C2_SingleFlight == []C2_AtMostOne /\ [][C2_Step]_vars

(* C2's case: start_completion was called while the lookup was running. *)
C2_Witness ==
    /\ lastCall.op = "start_completion" /\ lastCall.arg = "in_flight"
    /\ complete_thread_running
    /\ Cardinality(Running("complete")) = 1

(* C3: a result is committed (set_completions called, buffer.suggestion
   assigned) only by a callback that found the buffer's text and cursor
   position equal to the snapshot the result was computed for. *)
C3_StaleNeverApplied ==
    \A i \in 1..Len(effects) :
        effects[i].e \in {"set_completions", "set_suggestion"} => effects[i].arg = "fresh"

(* C3's case: the callback of the completer ran on a buffer that had changed
   since its snapshot, and committed nothing. *)
C3_Witness ==
    /\ lastCall.op = "complete_callback" /\ lastCall.arg = "stale"
    /\ ~HasEffect(effects, "set_completions", Root)
    /\ complete_state = NoState

Pending(k) ==
    {executor[i].snap : i \in {j \in 1..Len(executor) : executor[j].kind = k}}
        \cup {calls_from_executor[i].snap :
                 i \in {j \in 1..Len(calls_from_executor) :
                           calls_from_executor[j].type = k}}

(* A result of kind k is on its way for a document the buffer has left, and
   the user edits no more. *)
Superseded(k) == nEdits = MaxEdits /\ \E snap \in Pending(k) : snap # document

Holds(k) == IF k = "complete" THEN complete_state.set ELSE suggestion # <<>>

(* C4 as claimed: once a result is superseded, a task whose snapshot is the
   buffer's document is eventually started. *)
C4_FreshTaskStarts ==
    \A k \in Kinds : Superseded(k) ~> (last_started[k] = document)

(* C4, amended: once a result is superseded, a task whose snapshot is the
   buffer's document is eventually started, unless the buffer comes to hold
   a completion state (a suggestion) for its document: then the restart is
   refused. *)
C4_FreshTaskStartsOrHolds ==
    \A k \in Kinds : Superseded(k) ~> (last_started[k] = document \/ Holds(k))

(* C4's case: the callback of a superseded result has restarted the completer
   for the buffer's document. *)
C4_Witness ==
    /\ lastCall.op = "complete_callback" /\ lastCall.arg = "stale"
    /\ nEdits = MaxEdits
    /\ last_started["complete"] = document
    /\ \E i \in 1..Len(executor) :
          executor[i].kind = "complete" /\ executor[i].snap = document

(* C5: run_sub_application on a session that has a child raises and does
   nothing else: no session is constructed, the child reference stays, nothing
   is erased or painted; and a child is only ever attached to a session that had
   none. *)
C5_Step ==
    \A p \in Sessions :
        (lastCall'.op = "run_sub_application" /\ lastCall'.cli = p) =>
            IF _sub_cli[p] # NoCli
            THEN /\ lastCall'.exc = "RuntimeError"
                 /\ effects' = <<>>
                 /\ UNCHANGED <<created, _sub_cli, _is_running, render_counter,
                                _exit_flag, _abort_flag, _return_value, _invalidated,
                                eventloop, application, calls_from_executor,
                                loop_stopped, bufferVars>>
            ELSE /\ lastCall'.exc = ""
                 /\ _sub_cli'[p] \in created' \ created

C5_SecondChildRejected == [][C5_Step]_vars

C5_Witness ==
    /\ lastCall.op = "run_sub_application" /\ lastCall.exc = "RuntimeError"
    /\ _sub_cli[lastCall.cli] # NoCli
    /\ _is_running[_sub_cli[lastCall.cli]]

IndexOf(fx, e, s) == CHOOSE i \in 1..Len(fx) : fx[i].e = e /\ fx[i].cli = s

(* C6: when a child whose parent gave a done_callback calls
   set_return_value(V), done_callback is called once, with V, and the parent's
   child reference was cleared before that call. *)
C6_DoneCallbackGetsValue ==
    \A c \in Sessions :
        (/\ lastCall.op = "set_return_value" /\ lastCall.cli = c
         /\ eventloop[c] # NoCli /\ application[c].done_callback) =>
            /\ lastCall.exc = ""
            /\ Cardinality({i \in 1..Len(effects) : effects[i].e = "done_callback"}) = 1
            /\ HasEffect(effects, "done_callback", c)
            /\ effects[IndexOf(effects, "done_callback", c)].arg = lastCall.arg
            /\ HasEffect(effects, "clear_sub_cli", eventloop[c])
            /\ IndexOf(effects, "clear_sub_cli", eventloop[c])
                   < IndexOf(effects, "done_callback", c)
            /\ _sub_cli[eventloop[c]] = NoCli

C6_Witness ==
    /\ lastCall.op = "set_return_value" /\ lastCall.arg \in Values
    /\ eventloop[lastCall.cli] # NoCli
    /\ HasEffect(effects, "done_callback", lastCall.cli)
    /\ HasEffect(effects, "render", eventloop[lastCall.cli])

(* C7 as claimed: between the teardown of its child and its own next event a
   running parent paints exactly once. *)
C7_ExactlyOneRepaint ==
    \A p \in Sessions :
        repaints_after_teardown[p] # NotTracked => repaints_after_teardown[p] = 1

(* C7, amended: the teardown itself paints the running parent exactly once;
   every further paint of the parent before its next event is made by a
   redraw callback that an invalidate() of the parent had scheduled. *)
Teardown(p) == HasEffect(effects', "clear_sub_cli", p)

C7_Step ==
    \A p \in Sessions :
        /\ (Teardown(p) /\ _is_running[p]) =>
               /\ render_counter'[p] = render_counter[p] + 1
               /\ repaints_after_teardown'[p] = 1
        /\ (/\ repaints_after_teardown[p] # NotTracked
            /\ repaints_after_teardown'[p] # NotTracked
            /\ ~Teardown(p)
            /\ render_counter'[p] # render_counter[p]) =>
               /\ lastCall'.op = "redraw" /\ lastCall'.cli = p
               /\ _invalidated[p]
               /\ render_counter'[p] = render_counter[p] + 1

C7_TeardownRepaintsOnce == [][C7_Step]_vars

(* C7's case: the child of a running parent has been torn down while a redraw
   of the parent was pending. *)
C7_Witness ==
    \E p \in Sessions :
        /\ HasEffect(effects, "clear_sub_cli", p)
        /\ repaints_after_teardown[p] = 1
        /\ _invalidated[p]

(* C10 as claimed: is_done stays true until reset() is executed. *)
IsDone(s) == is_done(World, s)

C10_Step ==
    \A s \in Sessions :
        (IsDone(s) /\ ~HasEffect(effects', "on_reset", s)) => IsDone(s)'

C10_IsDoneLatches == [][C10_Step]_vars

Policy(s, op) == IF op = "exit" THEN application[s].on_exit ELSE application[s].on_abort

Flag(s, op) == IF op = "exit" THEN _exit_flag[s] ELSE _abort_flag[s]

Condition(op) == IF op = "exit" THEN "EOFError" ELSE "KeyboardInterrupt"

(* C11 as claimed: under the raise policy exit() and abort() do not raise
   themselves; they return with the flag set and the raising producer
   installed, and the condition is raised by return_value() only. *)
C11_DeferredRaise ==
    \A s \in Sessions :
        (/\ lastCall.op \in {"exit", "abort"} /\ lastCall.cli = s
         /\ Policy(s, lastCall.op) = "RAISE_EXCEPTION") =>
            /\ lastCall.exc = ""
            /\ Flag(s, lastCall.op)
            /\ _return_value[s] = Raiser(Condition(lastCall.op))
            /\ return_value(World, s) = [kind |-> "raise", v |-> Condition(lastCall.op)]

C12_Step ==
    \A s \in Sessions :
        (/\ lastCall'.op \in {"exit", "abort"} /\ lastCall'.cli = s
         /\ Policy(s, lastCall'.op) = "RETRY") =>
            /\ lastCall'.exc = ""
            /\ ~_exit_flag'[s] /\ ~_abort_flag'[s] /\ _return_value'[s] = None
            /\ ~IsDone(s)'
            /\ HasEffect(effects', "on_reset", s)
            /\ \A i \in 1..Len(effects') :
                  effects'[i].e \notin {"eventloop.stop", "clear_sub_cli", "done_callback"}
            /\ UNCHANGED <<loop_stopped, _is_running, _sub_cli, created>>

(* C12: exit() and abort() under the retry policy return without raising,
   with both flags and the return value cleared; the loop was not asked to
   stop (a child was not torn down), the session runs as before, and nothing
   of the other two policies happened. *)
C12_RetryRearms == [][C12_Step]_vars

(* C12's case: a running session has painted its exit and was reset. *)
C12_Witness ==
    /\ lastCall.op \in {"exit", "abort"}
    /\ Policy(lastCall.cli, lastCall.op) = "RETRY"
    /\ _is_running[lastCall.cli]
    /\ \E i \in 1..Len(effects) : effects[i] = Ev("render", lastCall.cli, "done")
    /\ HasEffect(effects, "on_reset", lastCall.cli)

C13_Raw == raw_mode => _is_running[Root]

C13_CleanupStep ==
    \A s \in Sessions :
        (lastCall'.op = "run" /\ lastCall'.cli = s) =>
            /\ ~_is_running'[s]
            /\ ~raw_mode'
            /\ HasEffect(effects', "renderer.reset", s)
            /\ HasEffect(effects', "on_stop", s)
            /\ effects'[Len(effects')] = Ev("on_stop", s, "")
            /\ effects'[Len(effects') - 1] = Ev("renderer.reset", s, "")
            /\ (raw_mode \/ HasEffect(effects', "raw_mode", s)) =>
                   HasEffect(effects', "raw_mode.exit", s)

C13_FlagStepOfRun ==
    \A s \in Sessions :
        /\ (~_is_running[s] /\ _is_running'[s]) =>
               (lastCall'.op = "run_enter" /\ lastCall'.cli = s)
        /\ (_is_running[s] /\ ~_is_running'[s]) =>
               (lastCall'.op = "run" /\ lastCall'.cli = s)

(* C13 as claimed: every end of run() leaves the renderer reset, the stop
   hook fired, raw mode left and the running flag false; and the running
   flag of a session is true only between its entry to run() and that
   cleanup. *)
C13_RunCleanup == []C13_Raw /\ [][C13_CleanupStep /\ C13_FlagStepOfRun]_vars

C13_FlagStep ==
    \A s \in Sessions :
        /\ (~_is_running[s] /\ _is_running'[s]) =>
               \/ lastCall'.op = "run_enter" /\ lastCall'.cli = s
               \/ /\ lastCall'.op = "run_sub_application"
                  /\ _sub_cli[lastCall'.cli] = NoCli
                  /\ _sub_cli'[lastCall'.cli] = s
        /\ (_is_running[s] /\ ~_is_running'[s]) =>
               \/ lastCall'.op = "run" /\ lastCall'.cli = s
               \/ /\ eventloop[s] # NoCli
                  /\ HasEffect(effects', "clear_sub_cli", eventloop[s])

(* C13, amended: the cleanup as claimed; the running flag of a session is
   set by its run() and cleared by the cleanup of run(), or, for the child
   of a sub application, set by run_sub_application() and cleared by the
   teardown done(). *)
C13_RunCleanupOrTeardown == []C13_Raw /\ [][C13_CleanupStep /\ C13_FlagStep]_vars

(* C13's case: the first paint raised inside raw mode, and run() cleaned up. *)
C13_Witness ==
    /\ lastCall = Call("run", Root, "_redraw", "Exception")
    /\ HasEffect(effects, "raw_mode.exit", Root)
    /\ HasEffect(effects, "on_stop", Root)
    /\ ~_is_running[Root] /\ ~raw_mode

Assigning(s) == s = Root /\ \E t \in Threads : pc[t] = "assigned"

(* C14 as claimed: with invalidate() called by several threads, a session has
   at most one redraw callback scheduled at a time, and its pending flag is
   set only while a redraw is scheduled or is just being scheduled. *)
C14_ThreadSafe ==
    \A s \in Sessions :
        /\ PendingRedraws(s) <= 1
        /\ _invalidated[s] => (PendingRedraws(s) >= 1 \/ Assigning(s))

InputEvents == {"terminal_size_changed", "input_timeout", "feed_key"}

RECURSIVE Chain(_)
Chain(s) == {s} \cup (IF _sub_cli[s] = NoCli THEN {} ELSE Chain(_sub_cli[s]))

(* C15: every resize, input timeout and key press that the bridge of a
   session delivers acts on one session only, which is on the chain of child
   references of the bridge's session and has no child itself. *)
C15_InnermostGetsInput ==
    lastCall.op \in InputEvents =>
        /\ effects # <<>>
        /\ \A i \in 1..Len(effects) :
              /\ effects[i].cli \in Chain(lastCall.cli)
              /\ _sub_cli[effects[i].cli] = NoCli

(* C15's case: a key press while the root session has a child. *)
C15_Witness ==
    /\ lastCall.op = "feed_key"
    /\ _sub_cli[Root] # NoCli
    /\ effects = <<Ev("input_processor.feed_key", _sub_cli[Root], "")>>


Paints(fx, s) == {i \in 1..Len(fx) : fx[i].e = "render" /\ fx[i].cli = s}

(* C16: _redraw() paints and adds one to render_counter exactly when the
   session is running and has no active child, and changes nothing otherwise.
   So in every handler render_counter grows by the number of paints the session
   made, a session does not paint while it has a child (a paint of a session
   that had a child at the start of the handler comes after the handler has
   cleared the reference), and the scheduled redraw callback paints if and only
   if the session is running without a child. *)
C16_Step ==
    \A s \in Sessions :
        /\ render_counter'[s] = render_counter[s] + Cardinality(Paints(effects', s))
        /\ \A i \in Paints(effects', s) :
               \/ _sub_cli[s] = NoCli
               \/ \E j \in 1..(i - 1) :
                     effects'[j].e = "clear_sub_cli" /\ effects'[j].cli = s
        /\ (_sub_cli[s] # NoCli /\ _sub_cli'[s] # NoCli) => Paints(effects', s) = {}
        /\ (lastCall'.op = "terminal_size_changed" /\ effects'[1].cli = s) =>
               (Paints(effects', s) # {} <=> (_is_running[s] /\ _sub_cli[s] = NoCli))
        /\ (lastCall'.op = "redraw" /\ lastCall'.cli = s) =>
               IF _is_running[s] /\ _sub_cli[s] = NoCli
               THEN effects' = <<Ev("render", s, IF IsDone(s) THEN "done" ELSE "not_done")>>
               ELSE effects' = <<>> /\ render_counter' = render_counter

C16_RenderGuard == [][C16_Step]_vars

(* C16's case: the redraw callback of a session with an active child has run
   and painted nothing, after that session had painted before. *)
C16_Witness ==
    /\ lastCall.op = "redraw"
    /\ _sub_cli[lastCall.cli] # NoCli
    /\ _is_running[lastCall.cli]
    /\ render_counter[lastCall.cli] > 0
    /\ effects = <<>>


(* The handler calls stop() on the event loop of the session c. *)
Stops(c, op) ==
    \/ op = "set_return_value"
    \/ op \in {"exit", "abort"} /\ Policy(c, op) # "RETRY"

(* c is the active, running child of a running parent that gave a done_callback. *)
ActiveChild(c) ==
    /\ c \in created /\ eventloop[c] # NoCli
    /\ _sub_cli[eventloop[c]] = c
    /\ _is_running[c] /\ _sub_cli[c] = NoCli
    /\ _is_running[eventloop[c]]
    /\ application[c].done_callback

(* C17 as claimed: when stop() of the proxied loop of an active child is
   invoked, the handler ends with, in this order: the paint of the child in its
   done state, the reset of the child's renderer, the clearing of the parent's
   child reference, the parent's request of the cursor position, the parent's
   repaint, and the delivery of the child's return value to done_callback. *)
C17_Step ==
    \A c \in Sessions :
        (lastCall'.cli = c /\ Stops(c, lastCall'.op) /\ ActiveChild(c)) =>
            LET parent == eventloop[c]
                n == Len(effects')
            IN  /\ n >= 6
                /\ effects'[n - 5] = Ev("render", c, "done")
                /\ effects'[n - 4] = Ev("renderer.reset", c, "")
                /\ effects'[n - 3] = Ev("clear_sub_cli", parent, "")
                /\ effects'[n - 2] = Ev("request_cpr", parent, "")
                /\ effects'[n - 1].e = "render" /\ effects'[n - 1].cli = parent
                /\ effects'[n].e = "done_callback" /\ effects'[n].cli = c
                /\ Cardinality(Paints(effects', parent)) = 1
                /\ _sub_cli'[parent] = NoCli

C17_TeardownOrder == [][C17_Step]_vars


(* The loop runs the callback at position i of its queue, a fresh result of
   the completer asked to insert the common part, which is not empty. *)
CommonPartCallback(i) ==
    LET cb == calls_from_executor[i]
        w == [World EXCEPT !.q = Remove(@, i)]
    IN  /\ Runnable(i) /\ cb.type = "complete"
        /\ Handled(complete_callback(w, cb), "complete_callback", Root,
                   Freshness(w, cb.snap))
        /\ document = cb.snap /\ ~complete_state.set
        /\ cb.opts.insert_common_part
        /\ get_common_complete_suffix(cb.snap, cb.result) # <<>>

WithCommonPart(i) ==
    LET cb == calls_from_executor[i]
        cp == document.cursor_position
    IN  [text |-> SubSeq(document.text, 1, cp)
                     \o get_common_complete_suffix(cb.snap, cb.result)
                     \o SubSeq(document.text, cp + 1, Len(document.text)),
         cursor_position |-> cp + Len(get_common_complete_suffix(cb.snap, cb.result))]

Inserted(i) ==
    /\ document' = WithCommonPart(i)
    /\ ~HasEffect(effects', "set_completions", Root)
    /\ ~complete_state'.set

StartsOne ==
    /\ Len(executor') = Len(executor) + 1
    /\ executor'[Len(executor')].kind = "complete"
    /\ executor'[Len(executor')].snap = document'
    /\ executor'[Len(executor')].phase = "running"
    /\ SubSeq(executor', 1, Len(executor)) = executor

(* C18 as claimed: a fresh result with a common part to insert inserts it,
   stores no completion list and starts exactly one new lookup for the changed
   buffer. *)
C18_Step ==
    \A i \in 1..Len(calls_from_executor) :
        CommonPartCallback(i) => Inserted(i) /\ StartsOne

C18_CommonPartRestarts == [][C18_Step]_vars

(* C18, amended: the common part is inserted and no completion list is stored;
   exactly one new lookup is started for the changed buffer when no lookup of
   the completer is running, and none when one is running, because the guard
   refuses every trigger of the callback. *)
C18_AmendedStep ==
    \A i \in 1..Len(calls_from_executor) :
        CommonPartCallback(i) =>
            /\ Inserted(i)
            /\ IF complete_thread_running THEN executor' = executor ELSE StartsOne

C18_CommonPartRestartsUnlessInFlight == [][C18_AmendedStep]_vars

(* C18's case: the callback has inserted the common part and the lookup for
   the changed buffer is running. *)
C18_Witness ==
    /\ lastCall.op = "complete_callback" /\ lastCall.arg = "fresh"
    /\ HasEffect(effects, "on_buffer_changed", Root)
    /\ document.text = A
    /\ ~complete_state.set
    /\ Running("complete") # {}
    /\ last_started["complete"] = document


(* The worker of the task at position i ends with the exception of its task
   function. *)
Raises(i) ==
    /\ Len(executor') = Len(executor)
    /\ executor[i].phase = "running" /\ executor'[i].phase = "raised"

(* C19 as claimed: when the task function raises on the worker, a callback
   that hands the failure to the control thread is scheduled on the event
   loop. *)
C19_Step ==
    \A i \in 1..Len(executor) :
        Raises(i) =>
            /\ Len(calls_from_executor') = Len(calls_from_executor) + 1
            /\ calls_from_executor'[Len(calls_from_executor')].type = executor[i].kind
            /\ calls_from_executor'[Len(calls_from_executor')].snap = executor[i].snap

C19_FailureIsScheduled == [][C19_Step]_vars


(* The handler executed last has painted the session s in its done state. *)
DonePainted(s) ==
    /\ lastCall.cli = s
    /\ \E i \in Paints(effects, s) : effects[i].arg = "done"

(* run() comes back from eventloop.run() with a producer installed. *)
RunReturns ==
    /\ lastCall'.op = "run" /\ lastCall'.arg \notin RunSteps \cup {"eventloop.run"}
    /\ _return_value[Root].kind \in {"lambda", "raiser"}

(* C20 as claimed: a session that is done and has painted its done state is
   not painted again by a redraw callback that invalidate() scheduled, before
   or after it became done; and run() returns the installed value or raises
   the installed condition. *)
C20_Step ==
    /\ \A s \in Sessions :
           (/\ IsDone(s) /\ DonePainted(s)
            /\ lastCall'.op = "redraw" /\ lastCall'.cli = s) =>
               Paints(effects', s) = {}
    /\ RunReturns =>
           IF _return_value[Root].kind = "lambda"
           THEN lastCall'.arg = _return_value[Root].v /\ lastCall'.exc = ""
           ELSE lastCall'.exc = _return_value[Root].v

C20_NoRepaintWhenDone == [][C20_Step]_vars


(* C21 as claimed: when an active child ends through the raise policy of
   exit() or abort(), the teardown completes (the parent's child reference is
   cleared and the parent repainted), nothing is raised by exit() / abort(),
   and done_callback is invoked once, with the failure. *)
C21_Step ==
    \A c \in Sessions :
        (/\ lastCall'.cli = c /\ lastCall'.op \in {"exit", "abort"}
         /\ Policy(c, lastCall'.op) = "RAISE_EXCEPTION"
         /\ ActiveChild(c)) =>
            /\ _sub_cli'[eventloop[c]] = NoCli
            /\ ~_is_running'[c]
            /\ Cardinality(Paints(effects', eventloop[c])) = 1
            /\ lastCall'.exc = ""
            /\ Cardinality({i \in 1..Len(effects') :
                               effects'[i] = Ev("done_callback", c,
                                                Condition(lastCall'.op))}) = 1

C21_FailureDelivered == [][C21_Step]_vars


(* C22: set_return_value(v) on a running session without a child leaves
   is_returning and is_done true and return_value() yielding v, has asked the
   session's event loop to stop (the real loop is marked to stop; the proxy
   loop of a sub application has run its stop callback), and has painted the
   session exactly once, in its done state, without raising. *)
C22_Step ==
    \A s \in Sessions :
        (/\ lastCall'.op = "set_return_value" /\ lastCall'.cli = s
         /\ _is_running[s] /\ _sub_cli[s] = NoCli) =>
            /\ lastCall'.exc = ""
            /\ is_returning(World, s)' /\ IsDone(s)'
            /\ return_value(World, s)' = [kind |-> "return", v |-> lastCall'.arg]
            /\ IF eventloop[s] = NoCli
               THEN loop_stopped' /\ HasEffect(effects', "eventloop.stop", s)
               ELSE HasEffect(effects', "clear_sub_cli", eventloop[s])
            /\ Cardinality(Paints(effects', s)) = 1
            /\ \A i \in Paints(effects', s) : effects'[i].arg = "done"
            /\ render_counter'[s] = render_counter[s] + 1

C22_ReturnValueInstalled == [][C22_Step]_vars

(* C22's case: set_return_value was called on the running root session, which
   has no child; the loop is asked to stop and the done state is painted. *)
C22_Witness ==
    /\ lastCall = Call("set_return_value", Root, "v1", "")
    /\ _is_running[Root] /\ _sub_cli[Root] = NoCli
    /\ loop_stopped
    /\ effects = <<Ev("eventloop.stop", Root, ""), Ev("render", Root, "done")>>


(* C23 as claimed: every call of invalidate() fires the on_invalidate
   notification, a call made while a repaint is pending included. *)
C23_NotifiedOnEveryCall ==
    lastCall.op = "invalidate" => HasEffect(effects, "on_invalidate", lastCall.cli)

(* C23, amended: a call of invalidate() that finds the pending flag unset sets
   it, fires on_invalidate once and schedules one redraw callback; a call that
   finds it set does nothing at all, the notification included. *)
C23_Step ==
    \A s \in Sessions :
        (lastCall'.op = "invalidate" /\ lastCall'.cli = s) =>
            IF _invalidated[s]
            THEN /\ effects' = <<>>
                 /\ UNCHANGED <<_invalidated, calls_from_executor>>
            ELSE /\ effects' = <<Ev("on_invalidate", s, "")>>
                 /\ _invalidated' = [_invalidated EXCEPT ![s] = TRUE]
                 /\ calls_from_executor' = Append(calls_from_executor, RedrawCb(s))

C23_NotifiedOnTransition == [][C23_Step]_vars

(* C23's case: invalidate() was called on the running root session while its
   repaint was pending, and after the first call had fired the notification. *)
C23_Witness ==
    /\ lastCall = Call("invalidate", Root, "", "")
    /\ _is_running[Root]
    /\ _invalidated[Root]
    /\ effects = <<>>


(* The fragments the functions of _write waiting in the loop's queue will
   write, in the order the loop runs them. *)
RECURSIVE Scheduled(_)
Scheduled(q) ==
    IF q = <<>> THEN <<>>
    ELSE (IF Head(q).type = "write" THEN Concat(Head(q).result) ELSE <<>>)
             \o Scheduled(Tail(q))

(* What has reached the output, followed by what is on its way to it: the
   scheduled fragments, then the buffer. *)
Stream == output \o Scheduled(calls_from_executor) \o Concat(_buffer)

(* C24 as claimed: the proxy neither loses nor duplicates nor reorders data.
   Every write(data) adds data at the end of the stream of characters that
   are out or on their way out, and no other step (a flush(), the loop running
   a scheduled function, the session starting to run) changes that stream, so
   that after a final flush the output is the data in the order of the
   write() calls. *)
C24_Step ==
    /\ \A data \in Data : Write(data) => Stream' = Stream \o data
    /\ lastCall'.op # "write" => Stream' = Stream

C24_NothingLostOrReordered == [][C24_Step]_vars


(* C25 as claimed: run_in_terminal(func, render_cli_done) leaves the holder of
   the return value as it was before the call, whether func returns or raises:
   is_returning, is_done and return_value() are what they were. *)
C25_Step ==
    \A s \in Sessions :
        (lastCall'.op = "run_in_terminal" /\ lastCall'.cli = s) =>
            /\ _return_value'[s] = _return_value[s]
            /\ is_returning(World, s)' = is_returning(World, s)
            /\ IsDone(s)' = IsDone(s)
            /\ return_value(World, s)' = return_value(World, s)

C25_HolderRestored == [][C25_Step]_vars


(* c is a child that has been torn down: constructed by run_sub_application,
   which sets it running, and not running any more. *)
TornDown(c) == c \in created /\ eventloop[c] # NoCli /\ ~_is_running[c]

(* C26 as claimed: a stop requested by a child that was torn down already
   does not invoke done_callback again and leaves the parent's child reference
   as it is, so that a later child of the parent is not detached. *)
C26_Step ==
    \A c \in Sessions :
        (lastCall'.cli = c /\ Stops(c, lastCall'.op) /\ TornDown(c)) =>
            /\ ~HasEffect(effects', "done_callback", c)
            /\ _sub_cli'[eventloop[c]] = _sub_cli[eventloop[c]]

C26_TeardownOnce == [][C26_Step]_vars


(* C27 as claimed: the single-flight guard is released when the worker has
   run, whether the task function returned or raised: the guard of a kind of
   task is set only while a worker of that kind is still running its task
   function, so no trigger is refused for a worker that has ended. *)
C27_GuardReleased ==
    \A k \in Kinds : Guard(k) => Running(k) # {}

====
